---- MODULE Spec2Model ----
(***************************************************************************)
(* ddbm, the DynamoDB migrator (src/main.go): one process run either       *)
(* exports a table as a JSON document or imports such a document into a    *)
(* table after a confirmation prompt.  The backing store, the file the     *)
(* shell redirects standard output to, and the terminal prompt are the     *)
(* environment; the flow of main, export and importFromFile is the         *)
(* program.                                                                *)
(***************************************************************************)
EXTENDS Integers, Sequences, FiniteSets, TLC

\* Longest document (number of Items) among the files found on disk.
MaxItems == 3
\* Most items the store returns in one scan page.
MaxPage == 2

(***************************************************************************)
(* Attribute values, Go values and JSON values.                            *)
(*   attribute value  [t |-> "S"|"N"|"B"|"BOOL"|"NULL"|"SS"|"NS"|"L"|"M"]  *)
(*   Go value (any)   [g |-> "string"|"float64"|"bytes"|"bool"|"nil"|      *)
(*                           "strings"|"floats"|"slice"|"map"]             *)
(*   JSON value       [j |-> "string"|"number"|"bool"|"null"|"array"|      *)
(*                           "object"]                                     *)
(* Numbers are carried as their decimal text, as DynamoDB does.            *)
(***************************************************************************)
BigN == "9007199254740993"

\* strconv.ParseFloat followed by the shortest decimal text of the float64:
\* 2^53+1 is not a float64 and rounds to 2^53.
ParseFloat(n) == IF n = BigN THEN "9007199254740992" ELSE n

\* encoding/base64 standard encoding of the byte strings in use.
Base64(b) == IF b = "a" THEN "YQ==" ELSE IF b = "" THEN "" ELSE "cA=="

RECURSIVE SetToSeq(_)
SetToSeq(s) ==
    IF s = {} THEN <<>>
    ELSE LET e == CHOOSE x \in s : TRUE IN <<e>> \o SetToSeq(s \ {e})

\* attributevalue.Unmarshal of one attribute value into an `any`.
RECURSIVE DecodeAV(_)
DecodeAV(av) ==
    CASE av.t = "S"    -> [g |-> "string", v |-> av.v]
      [] av.t = "N"    -> [g |-> "float64", v |-> ParseFloat(av.v)]
      [] av.t = "B"    -> [g |-> "bytes", v |-> av.v]
      [] av.t = "BOOL" -> [g |-> "bool", v |-> av.v]
      [] av.t = "NULL" -> [g |-> "nil", v |-> ""]
      [] av.t = "SS"   -> [g |-> "strings", v |-> SetToSeq(av.v)]
      [] av.t = "NS"   -> [g |-> "floats",
                           v |-> SetToSeq({ParseFloat(n) : n \in av.v})]
      [] av.t = "L"    -> [g |-> "slice",
                           v |-> [i \in 1..Len(av.v) |-> DecodeAV(av.v[i])]]
      [] av.t = "M"    -> [g |-> "map",
                           v |-> [k \in DOMAIN av.v |-> DecodeAV(av.v[k])]]

\* attributevalue.UnmarshalListOfMaps(items, &exportData.Items).
UnmarshalListOfMaps(items) ==
    [i \in 1..Len(items) |-> [k \in DOMAIN items[i] |-> DecodeAV(items[i][k])]]

\* json.Marshal of one Go value.
RECURSIVE JsonMarshalValue(_)
JsonMarshalValue(x) ==
    CASE x.g = "string"  -> [j |-> "string", v |-> x.v]
      [] x.g = "float64" -> [j |-> "number", v |-> x.v]
      [] x.g = "bytes"   -> [j |-> "string", v |-> Base64(x.v)]
      [] x.g = "bool"    -> [j |-> "bool", v |-> x.v]
      [] x.g = "nil"     -> [j |-> "null", v |-> ""]
      [] x.g = "strings" -> [j |-> "array",
                             v |-> [i \in 1..Len(x.v) |->
                                      [j |-> "string", v |-> x.v[i]]]]
      [] x.g = "floats"  -> [j |-> "array",
                             v |-> [i \in 1..Len(x.v) |->
                                      [j |-> "number", v |-> x.v[i]]]]
      [] x.g = "slice"   -> [j |-> "array",
                             v |-> [i \in 1..Len(x.v) |-> JsonMarshalValue(x.v[i])]]
      [] x.g = "map"     -> [j |-> "object",
                             v |-> [k \in DOMAIN x.v |-> JsonMarshalValue(x.v[k])]]

\* json.Marshal(exportData): the document with its four capitalised keys.
JsonMarshal(d) ==
    [TableName  |-> d.TableName,
     PrimaryKey |-> d.PrimaryKey,
     RangeKey   |-> d.RangeKey,
     Items      |-> [i \in 1..Len(d.Items) |->
                       [k \in DOMAIN d.Items[i] |-> JsonMarshalValue(d.Items[i][k])]]]

\* json.Unmarshal of one JSON value into an `any`.
RECURSIVE JsonUnmarshalValue(_)
JsonUnmarshalValue(x) ==
    CASE x.j = "string" -> [g |-> "string", v |-> x.v]
      [] x.j = "number" -> [g |-> "float64", v |-> ParseFloat(x.v)]
      [] x.j = "bool"   -> [g |-> "bool", v |-> x.v]
      [] x.j = "null"   -> [g |-> "nil", v |-> ""]
      [] x.j = "array"  -> [g |-> "slice",
                            v |-> [i \in 1..Len(x.v) |-> JsonUnmarshalValue(x.v[i])]]
      [] x.j = "object" -> [g |-> "map",
                            v |-> [k \in DOMAIN x.v |-> JsonUnmarshalValue(x.v[k])]]

\* json.Unmarshal(raw, &data) of a well-formed document.
JsonUnmarshal(doc) ==
    [TableName  |-> doc.TableName,
     PrimaryKey |-> doc.PrimaryKey,
     RangeKey   |-> doc.RangeKey,
     Items      |-> [i \in 1..Len(doc.Items) |->
                       [k \in DOMAIN doc.Items[i] |->
                          JsonUnmarshalValue(doc.Items[i][k])]]]

\* attributevalue.Marshal of one Go value.
RECURSIVE EncodeAV(_)
EncodeAV(x) ==
    CASE x.g = "string"  -> [t |-> "S", v |-> x.v]
      [] x.g = "float64" -> [t |-> "N", v |-> x.v]
      [] x.g = "bytes"   -> [t |-> "B", v |-> x.v]
      [] x.g = "bool"    -> [t |-> "BOOL", v |-> x.v]
      [] x.g = "nil"     -> [t |-> "NULL", v |-> ""]
      [] x.g = "strings" -> [t |-> "L",
                             v |-> [i \in 1..Len(x.v) |-> [t |-> "S", v |-> x.v[i]]]]
      [] x.g = "floats"  -> [t |-> "L",
                             v |-> [i \in 1..Len(x.v) |-> [t |-> "N", v |-> x.v[i]]]]
      [] x.g = "slice"   -> [t |-> "L",
                             v |-> [i \in 1..Len(x.v) |-> EncodeAV(x.v[i])]]
      [] x.g = "map"     -> [t |-> "M",
                             v |-> [k \in DOMAIN x.v |-> EncodeAV(x.v[k])]]

\* Mutant: attributes whose value is nil are left out (omitempty).
MarshalMapOmitsNil(item) ==
    [k \in {a \in DOMAIN item : item[a].g # "nil"} |-> EncodeAV(item[k])]

\* attributevalue.MarshalMap(item).
MarshalMap(item) == [k \in DOMAIN item |-> EncodeAV(item[k])]

(***************************************************************************)
(* The backing store: tables of items under a key schema.                  *)
(***************************************************************************)
TableNames == {"foo", "bar"}

HashOnly == [hash |-> "id", range |-> ""]
HashRange == [hash |-> "id", range |-> "sk"]
Schemas == {HashOnly, HashRange}

\* The key attributes a schema declares (both are string-typed).
KeyAttrs(sch) == IF sch.range = "" THEN {sch.hash} ELSE {sch.hash, sch.range}

\* The store rejects an item that lacks a key attribute or has one of the
\* wrong type.
KeyValid(item, sch) ==
    \A a \in KeyAttrs(sch) : a \in DOMAIN item /\ item[a].t = "S"

KeyOf(item, sch) == [a \in KeyAttrs(sch) |-> item[a]]

\* Two valid items of one table never share a key.
IsTable(items, sch) ==
    /\ \A i \in items : KeyValid(i, sch)
    /\ \A i, k \in items : KeyOf(i, sch) = KeyOf(k, sch) => i = k

StoreErrors == {"ThrottlingException", "InternalServerError"}

\* DescribeTable lists the key schema entries; their order is the store's.
KeyListings(sch) ==
    LET h == [AttributeName |-> sch.hash, KeyType |-> "HASH"]
        r == [AttributeName |-> sch.range, KeyType |-> "RANGE"]
    IN  IF sch.range = "" THEN {<<h>>} ELSE {<<h, r>>, <<r, h>>}

\* What one successful scan page may hold: up to MaxPage of the items not
\* yet returned, in any order (one empty page for an empty table).
RECURSIVE Arrangements(_, _)
Arrangements(s, n) ==
    IF n = 0 \/ s = {} THEN {<<>>}
    ELSE {<<>>} \cup
         UNION {{<<e>> \o t : t \in Arrangements(s \ {e}, n - 1)} : e \in s}

Pages(left) ==
    IF left = {} THEN {<<>>} ELSE Arrangements(left, MaxPage) \ {<<>>}

Range(f) == {f[i] : i \in DOMAIN f}

\* Mutant: an item whose key is taken is stored beside the old one, under
\* another hash key (an insert, not an overwrite).
PutUnderFreshKey(items, sch, item) ==
    IF \E i \in items : KeyOf(i, sch) = KeyOf(item, sch)
    THEN items \cup {[item EXCEPT ![sch.hash] = [t |-> "S", v |-> "dup"]]}
    ELSE items \cup {item}

\* Mutant: the item is merged into the one that holds its key; attributes
\* the new item lacks stay (an update, not a replacement).
PutMergesAttributes(items, sch, item) ==
    LET old == {i \in items : KeyOf(i, sch) = KeyOf(item, sch)}
        merged(o) == [k \in DOMAIN o \cup DOMAIN item |->
                        IF k \in DOMAIN item THEN item[k] ELSE o[k]]
    IN  (items \ old) \cup
        (IF old = {} THEN {item} ELSE {merged(o) : o \in old})

\* PutItem without a condition expression: the item replaces whatever item
\* holds its key, whole.
Put(items, sch, item) ==
    {i \in items : KeyOf(i, sch) # KeyOf(item, sch)} \cup {item}

(***************************************************************************)
(* The inputs: items, tables and the files found on disk.                  *)
(***************************************************************************)
Str(x) == [t |-> "S", v |-> x]

\* Plain items: I1 and I2 share the hash key and differ in range key and in
\* the attributes they have; I3 has another hash key and no range key
\* attribute.
I1 == [id |-> Str("a"), sk |-> Str("x"), v |-> Str("p")]
I2 == [id |-> Str("a"), sk |-> Str("y")]
I3 == [id |-> Str("b"), v |-> Str("p")]
PlainItems == {I1, I2, I3}

\* One payload per attribute type of the store.
Payloads ==
    {Str("p"),
     [t |-> "N", v |-> "1"],
     [t |-> "N", v |-> BigN],
     [t |-> "B", v |-> "a"],
     [t |-> "BOOL", v |-> "true"],
     [t |-> "NULL", v |-> ""],
     [t |-> "SS", v |-> {"p"}],
     [t |-> "NS", v |-> {"1"}],
     [t |-> "L", v |-> <<Str("p"), [t |-> "N", v |-> "1"]>>],
     [t |-> "M", v |-> [n |-> [t |-> "BOOL", v |-> "true"]]]}

TypedItems ==
    {[id |-> Str(k), sk |-> Str("x"), v |-> p] : k \in {"a", "b"}, p \in Payloads}

\* Every table over a universe of items: for each key, no item or one item.
RECURSIVE TablesOver(_, _, _)
TablesOver(keys, valid, sch) ==
    IF keys = {} THEN {{}}
    ELSE LET k == CHOOSE x \in keys : TRUE
             rest == TablesOver(keys \ {k}, valid, sch)
         IN  rest \cup {t \cup {i} : t \in rest, i \in {v \in valid : KeyOf(v, sch) = k}}

TablesOf(universe, sch) ==
    LET valid == {i \in universe : KeyValid(i, sch)}
    IN  TablesOver({KeyOf(i, sch) : i \in valid}, valid, sch)

\* The text of a file or of an output: absent, empty, not JSON, or a document.
NoFile == [kind |-> "absent"]
EmptyText == [kind |-> "empty"]
Garbage == [kind |-> "garbage"]
JsonText(doc) == [kind |-> "json", doc |-> doc]

\* The JSON object an item is written as.
JsonItem(item) == [k \in DOMAIN item |-> JsonMarshalValue(DecodeAV(item[k]))]

RECURSIVE SeqsUpTo(_, _)
SeqsUpTo(s, n) ==
    IF n = 0 THEN {<<>>}
    ELSE LET shorter == SeqsUpTo(s, n - 1)
         IN  shorter \cup {Append(t, e) : t \in {u \in shorter : Len(u) = n - 1}, e \in s}

\* Documents on disk: a header that names the destination's own keys, or one
\* that names another table and other keys, over up to MaxItems plain items.
Headers ==
    {[TableName |-> "foo", PrimaryKey |-> "id", RangeKey |-> ""],
     [TableName |-> "old", PrimaryKey |-> "v", RangeKey |-> "id"]}

Docs ==
    {[TableName |-> h.TableName, PrimaryKey |-> h.PrimaryKey,
      RangeKey |-> h.RangeKey, Items |-> its] :
        h \in Headers, its \in SeqsUpTo({JsonItem(i) : i \in PlainItems}, MaxItems)}

Files == {NoFile, Garbage} \cup {JsonText(d) : d \in Docs}

\* Command lines: the flags of one invocation, and whether the shell
\* redirects standard output to the file.
Invocation(table, import, redirect) ==
    [table |-> table, import |-> import, redirect |-> redirect]

FilePath == "file.json"

\* The scripts run: one invocation, or two joined by && (the second runs
\* when the first exited 0) or by || (when it did not).
Script(cmds, join) == [cmds |-> cmds, join |-> join]
ImportFoo == Invocation("foo", FilePath, FALSE)
UsagePlan == Script(<<Invocation("", FilePath, FALSE)>>, "&&")
RerunPlan == Script(<<ImportFoo, ImportFoo>>, "&&")
RetryPlan == Script(<<ImportFoo, ImportFoo>>, "||")
RoundTripPlan ==
    Script(<<Invocation("foo", "", TRUE), Invocation("bar", FilePath, FALSE)>>, "&&")

Plans == {UsagePlan, RerunPlan, RetryPlan, RoundTripPlan}

(***************************************************************************)
(* Errors, requests and the state of one process.                          *)
(***************************************************************************)
NoErr == [op |-> "", code |-> ""]
Error(op, code) == [op |-> op, code |-> code]

NoItem == [none |-> Str("")]
Request(op, table, item) ==
    [op |-> op, table |-> table, item |-> item, result |-> "pending"]
SetResult(log, r) == [log EXCEPT ![Len(log)].result = r]
Outstanding(log) == {i \in DOMAIN log : log[i].result = "pending"}

EmptyDocument == [TableName |-> "", PrimaryKey |-> "", RangeKey |-> "", Items |-> <<>>]
NoPaginator == [first |-> FALSE, left |-> {}]
NoTable == [TableName |-> "", KeySchema |-> <<>>]

VARIABLES
    store,        \* table name -> the items the table holds
    schema,       \* table name -> its key schema
    file,         \* the text of file.json
    plan,         \* the script: the invocations to run
    run,          \* how many of them have been started
    pc,           \* where the current process is ("off": none is running)
    tableName,    \* flag --table
    importPath,   \* flag --import
    redirect,     \* the shell sends standard output to file.json
    exportData,   \* export: the document being built
    items,        \* export: the raw items of the pages scanned so far
    paginator,    \* export: the scan paginator
    out,          \* export: the string export returns
    table,        \* export: what DescribeTable returned
    raw,          \* import: the bytes read
    data,         \* import: the document parsed
    confirm,      \* import: the value the form wrote
    idx,          \* import: the position of the item the loop is at
    err,          \* the error export or importFromFile returns
    stdout,       \* what the process printed to standard output
    stderr,       \* what log.Fatal printed
    exitCode,     \* -1 while running
    reqLog,       \* the requests this process sent to the store, in order
    formRun,      \* what form.Run returned ("none": not run); the code drops it
    tableAtStart, \* the store when the process started
    last          \* the process before the current one: what it did and left

vars == <<store, schema, file, plan, run, pc, tableName, importPath, redirect,
          exportData, items, paginator, out, raw, data, confirm, idx, err,
          stdout, stderr, exitCode, reqLog, formRun, tableAtStart, last, table>>

env == <<store, schema, file, plan, run, last, tableAtStart>>
flags == <<tableName, importPath, redirect>>
exportLocals == <<table, exportData, items, paginator, out>>
importLocals == <<raw, data, confirm, idx, formRun>>
outcome == <<stdout, stderr, exitCode>>

\* A process starts with its variables at their zero values.
FreshProcess ==
    /\ table = NoTable
    /\ exportData = EmptyDocument /\ items = <<>> /\ paginator = NoPaginator
    /\ out = EmptyText /\ raw = EmptyText /\ data = EmptyDocument
    /\ confirm = FALSE /\ idx = 0 /\ err = NoErr
    /\ stdout = EmptyText /\ stderr = NoErr /\ exitCode = -1
    /\ reqLog = <<>> /\ formRun = "none"

\* The destination "bar" of a round trip starts empty; a script that imports
\* into "foo" finds any table of plain items there and any file on disk.
Init ==
    /\ \/ /\ plan = UsagePlan
          /\ schema = [t \in TableNames |-> HashOnly]
          /\ store = [t \in TableNames |-> {}]
          /\ file = NoFile
       \/ /\ plan \in {RerunPlan, RetryPlan}
          /\ \E sch \in Schemas :
                /\ schema = [t \in TableNames |-> IF t = "foo" THEN sch ELSE HashOnly]
                /\ \E tbl \in TablesOf(PlainItems, sch) :
                      store = [t \in TableNames |-> IF t = "foo" THEN tbl ELSE {}]
          /\ file \in Files
       \/ /\ plan = RoundTripPlan
          /\ schema \in [TableNames -> Schemas]
          /\ \E tbl \in TablesOf(PlainItems \cup TypedItems, schema["foo"]) :
                store = [t \in TableNames |-> IF t = "foo" THEN tbl ELSE {}]
          /\ file = NoFile
    /\ run = 0 /\ pc = "off"
    /\ tableName = "" /\ importPath = "" /\ redirect = FALSE
    /\ FreshProcess
    /\ tableAtStart = store
    /\ last = [kind |-> "none"]

(***************************************************************************)
(* main, lines 47-80.                                                      *)
(***************************************************************************)
\* The last request the process sent got an error back.
Failed(log) == log # <<>> /\ log[Len(log)].result \notin {"ok", "pending"}

\* What a process that ended leaves for the next one to be compared with.
Summary ==
    [kind     |-> IF importPath # "" THEN "import" ELSE "export",
     table    |-> tableName,
     doc      |-> IF importPath # "" THEN raw ELSE out,
     ok       |-> exitCode = 0 /\ (importPath # "" => confirm),
     before   |-> tableAtStart,
     after    |-> store,
     stderr   |-> stderr,
     failedAt |-> IF importPath # "" /\ Failed(reqLog) THEN idx ELSE 0]

\* The shell starts the next invocation of the script and truncates the file
\* it redirects to.
StartRun ==
    /\ pc = "off"
    /\ run < Len(plan.cmds)
    /\ \/ run = 0
       \/ plan.join = "&&" /\ exitCode = 0
       \/ plan.join = "||" /\ exitCode # 0
    /\ run' = run + 1
    /\ tableName' = plan.cmds[run + 1].table
    /\ importPath' = plan.cmds[run + 1].import
    /\ redirect' = plan.cmds[run + 1].redirect
    /\ file' = IF plan.cmds[run + 1].redirect THEN EmptyText ELSE file
    /\ pc' = "main"
    /\ table' = NoTable
    /\ exportData' = EmptyDocument /\ items' = <<>> /\ paginator' = NoPaginator
    /\ out' = EmptyText /\ raw' = EmptyText /\ data' = EmptyDocument
    /\ confirm' = FALSE /\ idx' = 0 /\ err' = NoErr
    /\ stdout' = EmptyText /\ stderr' = NoErr /\ exitCode' = -1
    /\ reqLog' = <<>> /\ formRun' = "none"
    /\ tableAtStart' = store
    /\ last' = IF run = 0 THEN [kind |-> "none"] ELSE Summary
    /\ UNCHANGED <<store, schema, plan>>

\* if tableName == "" { usage(); os.Exit(1) }
MainUsage ==
    /\ pc = "main"
    /\ tableName = ""
    /\ stdout' = [kind |-> "usage"]
    /\ exitCode' = 1
    /\ pc' = "off"
    /\ UNCHANGED <<env, flags, exportLocals, importLocals, err, stderr, reqLog>>

\* config.LoadDefaultConfig; log.Fatal on error, else branch on importPath.
MainLoadConfig ==
    /\ pc = "main"
    /\ tableName # ""
    /\ \E ok \in BOOLEAN :
          IF ok
          THEN /\ pc' = IF importPath # "" THEN "import" ELSE "export"
               /\ UNCHANGED outcome
          ELSE /\ stderr' = Error("LoadDefaultConfig", "ConfigError")
               /\ exitCode' = 1
               /\ pc' = "off"
               /\ UNCHANGED stdout
    /\ UNCHANGED <<env, flags, exportLocals, importLocals, err, reqLog>>

\* Mutant: on an error the process starts over instead of exiting.
MainExitRetries ==
    /\ pc = "ret"
    /\ IF err # NoErr
       THEN /\ pc' = "main"
            /\ err' = NoErr
            /\ UNCHANGED <<outcome, file>>
       ELSE /\ exitCode' = 0
            /\ stdout' = IF importPath # "" THEN stdout ELSE out
            /\ file' = IF importPath = "" /\ redirect THEN out ELSE file
            /\ pc' = "off"
            /\ UNCHANGED <<stderr, err>>
    /\ UNCHANGED <<store, schema, plan, run, last, tableAtStart, flags,
                   exportLocals, importLocals, reqLog>>

\* After importFromFile or export returned: log.Fatal(err) exits 1; else the
\* export is printed and the process exits 0.
MainExit ==
    /\ pc = "ret"
    /\ IF err # NoErr
       THEN /\ stderr' = err
            /\ exitCode' = 1
            /\ UNCHANGED <<stdout, file>>
       ELSE /\ exitCode' = 0
            /\ stdout' = IF importPath # "" THEN stdout ELSE out
            /\ file' = IF importPath = "" /\ redirect THEN out ELSE file
            /\ UNCHANGED stderr
    /\ pc' = "off"
    /\ UNCHANGED <<store, schema, plan, run, last, tableAtStart, flags,
                   exportLocals, importLocals, err, reqLog>>

(***************************************************************************)
(* export, lines 90-137.                                                   *)
(***************************************************************************)
Max(S) == CHOOSE x \in S : \A y \in S : y <= x

\* Mutant: the first entry is taken for the hash key, the second for the
\* range key.
KeyNameByPosition(listing, type) ==
    LET at == IF type = "HASH" THEN 1 ELSE 2
    IN  IF at > Len(listing) THEN "" ELSE listing[at].AttributeName

\* The loop over table.Table.KeySchema: the name of the last entry of the
\* given key type, or "" when there is none.
KeyNameOf(listing, type) ==
    LET at == {i \in DOMAIN listing : listing[i].KeyType = type}
    IN  IF at = {} THEN "" ELSE listing[Max(at)].AttributeName

\* exportData after the key schema loop.
ExportHeader(name, listing) ==
    [TableName  |-> name,
     PrimaryKey |-> KeyNameOf(listing, "HASH"),
     RangeKey   |-> KeyNameOf(listing, "RANGE"),
     Items      |-> <<>>]

\* Mutant: a failing step returns the document of what was scanned so far.
ExportFailsWithPartial(e) ==
    /\ err' = e
    /\ out' = JsonText(JsonMarshal(
                 [exportData EXCEPT !.Items = UnmarshalListOfMaps(items)]))
    /\ pc' = "ret"

\* What export returns when a step fails: ("", err).
ExportFails(e) ==
    /\ err' = e
    /\ out' = EmptyText
    /\ pc' = "ret"

\* client.DescribeTable is sent.
DescribeTableCall ==
    /\ pc = "export"
    /\ reqLog' = Append(reqLog, Request("DescribeTable", tableName, NoItem))
    /\ pc' = "describing"
    /\ UNCHANGED <<env, flags, exportLocals, importLocals, err, outcome>>

\* client.DescribeTable returns; on success the key names are extracted and
\* the scan paginator is created.
DescribeTableReturn ==
    /\ pc = "describing"
    /\ \/ \E code \in StoreErrors :
            /\ reqLog' = SetResult(reqLog, code)
            /\ ExportFails(Error("DescribeTable", code))
            /\ UNCHANGED <<table, exportData, items, paginator>>
       \/ \E listing \in KeyListings(schema[tableName]) :
            /\ reqLog' = SetResult(reqLog, "ok")
            /\ table' = [TableName |-> tableName, KeySchema |-> listing]
            /\ exportData' = ExportHeader(tableName, listing)
            /\ paginator' = [first |-> TRUE, left |-> store[tableName]]
            /\ pc' = "scan"
            /\ UNCHANGED <<items, out, err>>
    /\ UNCHANGED <<env, flags, importLocals, outcome>>

\* paginator.HasMorePages(): the first page, or a page that left more.
HasMorePages(p) == p.first \/ p.left # {}

\* paginator.NextPage is sent.
NextPageCall ==
    /\ pc = "scan"
    /\ HasMorePages(paginator)
    /\ reqLog' = Append(reqLog, Request("Scan", tableName, NoItem))
    /\ pc' = "scanning"
    /\ UNCHANGED <<env, flags, exportLocals, importLocals, err, outcome>>

\* paginator.NextPage returns: an error, or a page appended to items.
NextPageReturn ==
    /\ pc = "scanning"
    /\ \/ \E code \in StoreErrors :
            /\ reqLog' = SetResult(reqLog, code)
            /\ ExportFails(Error("Scan", code))
            /\ UNCHANGED <<table, exportData, items, paginator>>
       \/ \E page \in Pages(paginator.left) :
            /\ reqLog' = SetResult(reqLog, "ok")
            /\ items' = items \o page
            /\ paginator' = [first |-> FALSE, left |-> paginator.left \ Range(page)]
            /\ pc' = "scan"
            /\ UNCHANGED <<table, exportData, out, err>>
    /\ UNCHANGED <<env, flags, importLocals, outcome>>

\* attributevalue.UnmarshalListOfMaps(items, &exportData.Items).
ExportDecode ==
    /\ pc = "scan"
    /\ ~HasMorePages(paginator)
    /\ \/ /\ ExportFails(Error("UnmarshalListOfMaps", "DecodeError"))
          /\ UNCHANGED exportData
       \/ /\ exportData' = [exportData EXCEPT !.Items = UnmarshalListOfMaps(items)]
          /\ pc' = "decoded"
          /\ UNCHANGED <<out, err>>
    /\ UNCHANGED <<env, flags, table, items, paginator, importLocals, outcome,
                   reqLog>>

\* json.Marshal(exportData) and return string(dump), err.
ExportMarshal ==
    /\ pc = "decoded"
    /\ \/ ExportFails(Error("Marshal", "EncodeError"))
       \/ /\ out' = JsonText(JsonMarshal(exportData))
          /\ err' = NoErr
          /\ pc' = "ret"
    /\ UNCHANGED <<env, flags, table, exportData, items, paginator, importLocals,
                   outcome, reqLog>>

(***************************************************************************)
(* importFromFile, lines 139-181.                                          *)
(***************************************************************************)
ImportReturns(e) ==
    /\ err' = e
    /\ pc' = "ret"

\* os.ReadFile(path).
ImportReadFile ==
    /\ pc = "import"
    /\ IF file = NoFile
       THEN /\ ImportReturns(Error("ReadFile", "ENOENT"))
            /\ UNCHANGED raw
       ELSE /\ raw' = file
            /\ pc' = "parse"
            /\ UNCHANGED err
    /\ UNCHANGED <<env, flags, exportLocals, data, confirm, idx, formRun,
                   outcome, reqLog>>

\* json.Unmarshal(raw, &data).
ImportUnmarshal ==
    /\ pc = "parse"
    /\ IF raw.kind # "json"
       THEN /\ ImportReturns(Error("Unmarshal", "SyntaxError"))
            /\ UNCHANGED data
       ELSE /\ data' = JsonUnmarshal(raw.doc)
            /\ pc' = "confirm"
            /\ UNCHANGED err
    /\ UNCHANGED <<env, flags, exportLocals, raw, confirm, idx, formRun,
                   outcome, reqLog>>

\* form.Run() and if !confirm { return nil }: the form leaves its value in
\* confirm and returns an error or not; the error is not looked at.
ImportConfirm ==
    /\ pc = "confirm"
    /\ \E answer \in BOOLEAN, returned \in {"nil", "error"} :
          /\ confirm' = answer
          /\ formRun' = returned
          /\ IF ~answer
             THEN /\ ImportReturns(NoErr)
                  /\ UNCHANGED idx
             ELSE /\ idx' = 1
                  /\ pc' = "loop"
                  /\ UNCHANGED err
    /\ UNCHANGED <<env, flags, exportLocals, raw, data, outcome, reqLog>>

\* Mutant: the error is wrapped with the position of the item.
WriteErrorWithPosition(code, pos) == [op |-> "PutItem", code |-> code, pos |-> pos]

\* The error importFromFile returns when PutItem failed for the item at
\* position pos: the store's error, as it is.
WriteError(code, pos) == Error("PutItem", code)

\* Mutant: the request is sent and the loop goes on without waiting for it.
PutItemCallNoWait ==
    /\ pc = "loop"
    /\ idx <= Len(data.Items)
    /\ reqLog' = Append(reqLog,
          Request("PutItem", tableName, MarshalMap(data.Items[idx])))
    /\ idx' = idx + 1
    /\ UNCHANGED <<env, flags, exportLocals, raw, data, confirm, formRun,
                   outcome, pc, err>>

\* One iteration's attributevalue.MarshalMap(item), then client.PutItem is
\* sent.
PutItemCall ==
    /\ pc = "loop"
    /\ idx <= Len(data.Items)
    /\ \/ /\ ImportReturns(Error("MarshalMap", "EncodeError"))
          /\ UNCHANGED reqLog
       \/ /\ reqLog' = Append(reqLog,
                  Request("PutItem", tableName, MarshalMap(data.Items[idx])))
          /\ pc' = "putting"
          /\ UNCHANGED err
    /\ UNCHANGED <<env, flags, exportLocals, importLocals, outcome>>

\* Mutant: a failed write is skipped and the loop goes on.
PutItemReturnSkipsFailure ==
    /\ pc = "putting"
    /\ LET req == reqLog[Len(reqLog)]
           codes == IF KeyValid(req.item, schema[req.table])
                    THEN StoreErrors \cup {"ok"}
                    ELSE {"ValidationException"}
       IN  \E code \in codes :
             /\ reqLog' = SetResult(reqLog, code)
             /\ store' = IF code = "ok"
                         THEN [store EXCEPT ![req.table] =
                                 Put(@, schema[req.table], req.item)]
                         ELSE store
             /\ idx' = idx + 1
             /\ pc' = "loop"
             /\ UNCHANGED err
    /\ UNCHANGED <<schema, file, plan, run, last, tableAtStart, flags,
                   exportLocals, raw, data, confirm, formRun, outcome>>

\* client.PutItem returns: the store rejected the item, failed, or wrote it;
\* on success the loop goes on to the next item.
PutItemReturn ==
    /\ pc = "putting"
    /\ LET req == reqLog[Len(reqLog)]
           codes == IF KeyValid(req.item, schema[req.table])
                    THEN StoreErrors \cup {"ok"}
                    ELSE {"ValidationException"}
       IN  \E code \in codes :
             /\ reqLog' = SetResult(reqLog, code)
             /\ IF code = "ok"
                THEN /\ store' = [store EXCEPT ![req.table] =
                                     Put(@, schema[req.table], req.item)]
                     /\ idx' = idx + 1
                     /\ pc' = "loop"
                     /\ UNCHANGED err
                ELSE /\ ImportReturns(WriteError(code, idx))
                     /\ UNCHANGED <<store, idx>>
    /\ UNCHANGED <<schema, file, plan, run, last, tableAtStart, flags,
                   exportLocals, raw, data, confirm, formRun, outcome>>

\* The loop is over: return nil.
ImportDone ==
    /\ pc = "loop"
    /\ idx > Len(data.Items)
    /\ ImportReturns(NoErr)
    /\ UNCHANGED <<env, flags, exportLocals, importLocals, outcome, reqLog>>

Next ==
    \/ StartRun
    \/ MainUsage
    \/ MainLoadConfig
    \/ MainExit
    \/ DescribeTableCall
    \/ DescribeTableReturn
    \/ NextPageCall
    \/ NextPageReturn
    \/ ExportDecode
    \/ ExportMarshal
    \/ ImportReadFile
    \/ ImportUnmarshal
    \/ ImportConfirm
    \/ PutItemCall
    \/ PutItemReturn
    \/ ImportDone

Spec == Init /\ [][Next]_vars

(***************************************************************************)
(* Properties.                                                             *)
(***************************************************************************)
ImportRun == tableName # "" /\ importPath # ""
ExportRun == tableName # "" /\ importPath = ""
Exited == pc = "off" /\ run > 0
Puts == {i \in DOMAIN reqLog : reqLog[i].op = "PutItem"}
WriteFailed == ImportRun /\ Failed(reqLog) /\ reqLog[Len(reqLog)].op = "PutItem"
ScanFailed == ExportRun /\ Failed(reqLog) /\ reqLog[Len(reqLog)].op = "Scan"

\* A table after the items of `written` were put into it one after the
\* other, said without Put: the items of `before` whose key no written item
\* has, and for each written key the last item written with it.
Upserted(before, written, sch) ==
    {it \in before :
        \A i \in DOMAIN written : KeyOf(written[i], sch) # KeyOf(it, sch)}
    \cup
    {written[i] : i \in {j \in DOMAIN written :
        \A k \in DOMAIN written :
            k > j => KeyOf(written[k], sch) # KeyOf(written[j], sch)}}

\* C1 (as claimed): in an import run, once the prompt was answered "no" or
\* the prompt itself returned an error, no PutItem is ever sent, no table
\* changes, and the run ends without error, exit code 0.
C1_DeclineOrPromptErrorWritesNothing ==
    (ImportRun /\ formRun # "none" /\ (~confirm \/ formRun = "error")) =>
        /\ Puts = {}
        /\ store = tableAtStart
        /\ pc \in {"ret", "off"}
        /\ err = NoErr
        /\ (pc = "off" => exitCode = 0)

\* The part of C1 the code keeps: an answer of "no" writes nothing.
DeclinedWritesNothing ==
    (ImportRun /\ formRun # "none" /\ ~confirm) =>
        /\ Puts = {}
        /\ store = tableAtStart
        /\ pc \in {"ret", "off"}
        /\ err = NoErr
        /\ (pc = "off" => exitCode = 0)

\* C2: when the PutItem for the item at position K fails in a confirmed
\* import, the items 1..K-1 were each sent in document order and written
\* (the table holds them, nothing is rolled back), no request for a later
\* item is ever sent, and the run ends with an error, exit code 1.
C2_WriteFailureStopsImport ==
    WriteFailed =>
        LET K == Len(reqLog)
            sch == schema[tableName]
        IN  /\ idx = K
            /\ K <= Len(data.Items)
            /\ \A i \in 1..K :
                  /\ reqLog[i].op = "PutItem"
                  /\ reqLog[i].table = tableName
                  /\ reqLog[i].item = MarshalMap(data.Items[i])
            /\ \A i \in 1..(K - 1) : reqLog[i].result = "ok"
            /\ store[tableName] =
                  Upserted(tableAtStart[tableName],
                           [i \in 1..(K - 1) |-> reqLog[i].item], sch)
            /\ pc \in {"ret", "off"}
            /\ err # NoErr
            /\ (pc = "off" => exitCode = 1)

\* C2's case: the second of three items failed, the first stays written.
C2_Witness ==
    /\ WriteFailed /\ pc = "off"
    /\ Len(reqLog) = 2 /\ Len(data.Items) = 3
    /\ reqLog[1].item \in store[tableName]
    /\ reqLog[1].item \notin tableAtStart[tableName]

\* C3 (as claimed): the error reported for a failed write identifies the
\* position of the item, so that two runs that failed at different
\* positions report different errors.
C3_ErrorIdentifiesPosition ==
    (run = 2 /\ pc = "off" /\ WriteFailed /\ last.kind = "import"
       /\ last.failedAt > 0 /\ last.failedAt # idx)
        => stderr # last.stderr

\* C3 (as amended): the error reported for a failed write is the error
\* PutItem returned for that item, as it is: the operation and the store's
\* error code, and no position.
C3_ReportsStoreErrorUnchanged ==
    WriteFailed =>
        /\ err = Error("PutItem", reqLog[Len(reqLog)].result)
        /\ DOMAIN err = {"op", "code"}
        /\ (pc = "off" => stderr = err)

\* C3's case: two runs failed at different positions and report the same
\* error.
C3_Witness ==
    /\ run = 2 /\ pc = "off" /\ WriteFailed
    /\ last.kind = "import" /\ last.failedAt > 0 /\ last.failedAt # idx
    /\ stderr = last.stderr

\* C4: when a scan page fails, the first or a later one, export returns the
\* empty string and an error; nothing is printed to standard output (nor put
\* into the file it is redirected to), no document holds the items of the
\* pages before, and the run exits 1.
C4_ScanFailureYieldsNoDocument ==
    ScanFailed =>
        /\ out = EmptyText
        /\ err # NoErr
        /\ exportData.Items = <<>>
        /\ stdout = EmptyText
        /\ (redirect => file = EmptyText)
        /\ pc \in {"ret", "off"}
        /\ (pc = "off" => exitCode = 1 /\ stderr = err)

\* C4's case: the second page failed after a first page that held items.
C4_Witness ==
    /\ ScanFailed /\ pc = "off"
    /\ Len(reqLog) = 3
    /\ reqLog[2].result = "ok"
    /\ items # <<>>

\* The values the typed-JSON encoding can carry: strings, numbers that are
\* float64 values, booleans, null, and lists and maps of such values.
RECURSIVE RepresentableAV(_)
RepresentableAV(av) ==
    CASE av.t \in {"S", "BOOL", "NULL"} -> TRUE
      [] av.t = "N" -> ParseFloat(av.v) = av.v
      [] av.t = "L" -> \A i \in DOMAIN av.v : RepresentableAV(av.v[i])
      [] av.t = "M" -> \A k \in DOMAIN av.v : RepresentableAV(av.v[k])
      [] OTHER -> FALSE

Representable(tbl) == \A it \in tbl : \A k \in DOMAIN it : RepresentableAV(it[k])

\* The process is an import that was confirmed and exited 0, after an
\* earlier process of the script.
SecondImportCompleted ==
    run = 2 /\ pc = "off" /\ ImportRun /\ confirm /\ exitCode = 0

\* C5: a table of representable items, exported without failure and the
\* document then imported (confirmed, no failure) into an empty table with
\* the same key schema, leaves that table with the item set of the source.
C5_RoundTrip ==
    (/\ SecondImportCompleted
     /\ last.kind = "export" /\ last.ok /\ raw = last.doc
     /\ tableAtStart[tableName] = {}
     /\ schema[tableName] = schema[last.table]
     /\ Representable(last.before[last.table]))
        => store[tableName] = last.before[last.table]

\* C5's case: a round trip of two items that carry a number and a map.
C5_Witness ==
    /\ SecondImportCompleted
    /\ last.kind = "export" /\ last.ok /\ raw = last.doc
    /\ tableAtStart[tableName] = {}
    /\ schema[tableName] = schema[last.table]
    /\ Representable(last.before[last.table])
    /\ Cardinality(last.before[last.table]) = 2
    /\ \E it \in last.before[last.table] : "v" \in DOMAIN it /\ it["v"].t = "N"
    /\ \E it \in last.before[last.table] : "v" \in DOMAIN it /\ it["v"].t = "M"

\* Outside C5's precondition the round trip does change items: sets and
\* binary values come back as lists and strings, 2^53+1 comes back as 2^53.
RoundTripOfAnyTable ==
    (/\ SecondImportCompleted
     /\ last.kind = "export" /\ last.ok /\ raw = last.doc
     /\ tableAtStart[tableName] = {}
     /\ schema[tableName] = schema[last.table])
        => store[tableName] = last.before[last.table]

\* C6: a confirmed, failure-free import of a document, run again on the
\* same document and table, leaves the table as the first run left it.
C6_ImportIdempotent ==
    (/\ SecondImportCompleted
     /\ last.kind = "import" /\ last.ok
     /\ last.table = tableName /\ last.doc = raw)
        => store[tableName] = last.after[tableName]

\* C6's case: the first import changed the table, with a document that
\* holds two different items of one key.
C6_Witness ==
    /\ SecondImportCompleted
    /\ last.kind = "import" /\ last.ok
    /\ last.table = tableName /\ last.doc = raw
    /\ last.before[tableName] # {}
    /\ last.before[tableName] # last.after[tableName]
    /\ \E i, k \in DOMAIN data.Items :
          /\ i < k /\ data.Items[i] # data.Items[k]
          /\ KeyOf(MarshalMap(data.Items[i]), schema[tableName]) =
                KeyOf(MarshalMap(data.Items[k]), schema[tableName])

\* C7: the document a successful export prints names the table's hash key
\* as PrimaryKey and its range key as RangeKey ("" when the table has only
\* a hash key), in whichever order DescribeTable listed the key schema.
C7_ExportSchemaFields ==
    (ExportRun /\ pc = "off" /\ exitCode = 0) =>
        /\ stdout.kind = "json"
        /\ stdout.doc.PrimaryKey = schema[tableName].hash
        /\ stdout.doc.PrimaryKey # ""
        /\ stdout.doc.RangeKey = schema[tableName].range
        /\ \A i \in DOMAIN table.KeySchema :
              /\ table.KeySchema[i].KeyType = "HASH" =>
                    stdout.doc.PrimaryKey = table.KeySchema[i].AttributeName
              /\ table.KeySchema[i].KeyType = "RANGE" =>
                    stdout.doc.RangeKey = table.KeySchema[i].AttributeName
        /\ (Len(table.KeySchema) = 1 => stdout.doc.RangeKey = "")
        /\ (Len(table.KeySchema) = 2 => stdout.doc.RangeKey # "")

\* C7's case: an export of a table whose range key was listed first.
C7_Witness ==
    /\ ExportRun /\ pc = "off" /\ exitCode = 0
    /\ Len(table.KeySchema) = 2
    /\ table.KeySchema[1].KeyType = "RANGE"

\* What C8 says of every state: a process that ended exited 0 or 1; it
\* exited 0 only with the export printed, or the import completed or
\* declined; a failed step leaves only the return and the exit with code 1.
C8_State ==
    /\ (pc # "off" => exitCode = -1)
    /\ (Exited => exitCode \in {0, 1})
    /\ (Exited /\ exitCode = 0) =>
          \/ /\ ExportRun /\ err = NoErr
             /\ out.kind = "json" /\ stdout = out
          \/ /\ ImportRun /\ err = NoErr /\ formRun # "none" /\ ~confirm
          \/ /\ ImportRun /\ err = NoErr /\ confirm
             /\ Len(reqLog) = Len(data.Items)
             /\ \A i \in DOMAIN reqLog : reqLog[i].result = "ok"
    /\ (Exited /\ exitCode = 1) => (tableName = "" \/ stderr # NoErr)
    /\ (err # NoErr \/ Failed(reqLog)) =>
          /\ pc \in {"ret", "off"}
          /\ err # NoErr
          /\ (pc = "off" => exitCode = 1 /\ stderr = err)

\* What C8 says of every step of one process: after a failure the only
\* step is the exit with code 1, and after the exit nothing happens; no
\* request is sent and no table changes in either.
C8_Step ==
    (run' = run /\ (err # NoErr \/ pc = "off")) =>
        /\ reqLog' = reqLog
        /\ store' = store
        /\ err' = err
        /\ pc' = "off"
        /\ (pc = "off" => exitCode' = exitCode)
        /\ (pc # "off" => exitCode' = 1)

C10_ImportOverridesByKey ==
    (ImportRun /\ pc \in {"ret", "off"} /\ confirm /\ err = NoErr) =>
        /\ store[tableName] =
              Upserted(tableAtStart[tableName],
                       [i \in 1..Len(data.Items) |-> MarshalMap(data.Items[i])],
                       schema[tableName])
        /\ \A t \in TableNames \ {tableName} : store[t] = tableAtStart[t]

\* C10's case: the document names another table and other keys; one earlier
\* item is kept, one is replaced, and the document has two different items
\* of one key.
C10_Witness ==
    /\ ImportRun /\ pc = "off" /\ confirm /\ exitCode = 0
    /\ data.TableName # tableName
    /\ data.PrimaryKey # schema[tableName].hash
    /\ data.RangeKey # schema[tableName].range
    /\ tableAtStart[tableName] \cap store[tableName] # {}
    /\ tableAtStart[tableName] \ store[tableName] # {}
    /\ \E i, k \in DOMAIN data.Items :
          /\ i < k /\ data.Items[i] # data.Items[k]
          /\ KeyOf(MarshalMap(data.Items[i]), schema[tableName]) =
                KeyOf(MarshalMap(data.Items[k]), schema[tableName])

====
